---- MODULE Spec2Model ----
(***************************************************************************)
(* A model of the OpenFaaS classic watchdog: the configuration loader      *)
(* (readconfig.go) and the lifecycle of the serving process (main,         *)
(* listenUntilShutdown, markUnhealthy).                                    *)
(*                                                                         *)
(* Strings are sequences of one-character strings.  A time.Duration is an  *)
(* int64 count of nanoseconds; it is kept as four 16-bit limbs, least      *)
(* significant first, in two's complement, so that the arithmetic keeps    *)
(* the width of the Go type.  Exact (unbounded) naturals are limb          *)
(* sequences without trailing zero limbs.                                  *)
(***************************************************************************)
EXTENDS Integers, Sequences, FiniteSets, TLC

(* ------------------------------ bounds -------------------------------- *)

\* longest environment value drawn over the full alphabet
MaxLen == 4
\* longest all-digit environment value
MaxDigits == 10
\* number of concurrent client connections to the function endpoint
MaxReqs == 2
\* longest value drawn for write_timeout and healthcheck_interval
MaxTimeoutLen == 2

(* --------------------------- exact naturals --------------------------- *)

Base == 2^16

RECURSIVE Norm(_)
Norm(x) ==
    IF x = <<>> THEN <<>>
    ELSE IF x[Len(x)] = 0 THEN Norm(SubSeq(x, 1, Len(x) - 1))
    ELSE x

\* x * k + a, for 0 <= k <= 30000 and 0 <= a < Base
RECURSIVE MulAddRaw(_, _, _)
MulAddRaw(x, k, a) ==
    IF x = <<>>
    THEN IF a = 0 THEN <<>> ELSE <<a>>
    ELSE LET t == Head(x) * k + a
         IN  <<t % Base>> \o MulAddRaw(Tail(x), k, t \div Base)

MulAdd(x, k, a) == Norm(MulAddRaw(x, k, a))

RECURSIVE AddRaw(_, _, _)
AddRaw(x, y, c) ==
    IF x = <<>> /\ y = <<>>
    THEN IF c = 0 THEN <<>> ELSE <<c>>
    ELSE LET a == IF x = <<>> THEN 0 ELSE Head(x)
             b == IF y = <<>> THEN 0 ELSE Head(y)
             t == a + b + c
         IN  <<t % Base>> \o AddRaw(IF x = <<>> THEN <<>> ELSE Tail(x),
                                    IF y = <<>> THEN <<>> ELSE Tail(y),
                                    t \div Base)

AddN(x, y) == Norm(AddRaw(x, y, 0))

\* floor(x / k), for 0 < k <= 30000; the limbs are taken from the top
RECURSIVE DivRaw(_, _, _)
DivRaw(x, k, rem) ==
    IF x = <<>> THEN <<>>
    ELSE LET t == rem * Base + x[Len(x)]
         IN  DivRaw(SubSeq(x, 1, Len(x) - 1), k, t % k) \o <<t \div k>>

DivSmall(x, k) == Norm(DivRaw(x, k, 0))

\* x < y on normalised naturals
RECURSIVE LessN(_, _)
LessN(x, y) ==
    IF Len(x) # Len(y) THEN Len(x) < Len(y)
    ELSE IF x = <<>> THEN FALSE
    ELSE IF x[Len(x)] # y[Len(y)] THEN x[Len(x)] < y[Len(y)]
    ELSE LessN(SubSeq(x, 1, Len(x) - 1), SubSeq(y, 1, Len(y) - 1))

NatN(n) == MulAdd(<<>>, 0, n)

\* 2^63, the bound time.ParseDuration and strconv test against
TwoTo63 == <<0, 0, 0, 2^15>>

(* --------------------------- int64 values ----------------------------- *)

Int64Zero == <<0, 0, 0, 0>>

\* the conversion of a natural to the 64-bit type: the low 64 bits
ToInt64(x) == [i \in 1..4 |-> IF i <= Len(x) THEN x[i] ELSE 0]

IsNeg64(d) == d[4] >= 2^15

\* two's complement negation, modulo 2^64
NegInt64(d) ==
    ToInt64(AddRaw([i \in 1..4 |-> Base - 1 - d[i]], <<1>>, 0))

IsPos64(d) == ~IsNeg64(d) /\ d # Int64Zero

(* ------------------------------ strings ------------------------------- *)

Digits == <<"0", "1", "2", "3", "4", "5", "6", "7", "8", "9">>

IsDigit(c) == \E i \in 1..10 : Digits[i] = c

DigitVal(c) == (CHOOSE i \in 1..10 : Digits[i] = c) - 1

StrTrue == <<"t", "r", "u", "e">>

\* all strings over the alphabet A of length at most n
Strs(A, n) == UNION {[1..k -> A] : k \in 0..n}

(* --------------------- strconv.Atoi (64-bit int) ---------------------- *)

\* The operators below hand every intermediate result on as an argument, a
\* local of the Go function per parameter, so that no operator is expanded
\* more than once where it is used.

HasSign(s) == s # <<>> /\ s[1] \in {"-", "+"}

IsNegative(s) == HasSign(s) /\ s[1] = "-"

\* the string after the optional sign
Unsigned(s) == IF HasSign(s) THEN Tail(s) ELSE s

AllDigits(s) == s # <<>> /\ \A i \in 1..Len(s) : IsDigit(s[i])

\* the decimal value of a string of digits, as an exact natural
RECURSIVE DecValue(_, _)
DecValue(s, acc) ==
    IF s = <<>> THEN acc
    ELSE DecValue(Tail(s), MulAdd(acc, 10, DigitVal(Head(s))))

\* the result of Atoi for a well-formed string of magnitude mag: a value an
\* int can hold.  [ok, neg, mag]
AtoiResult(neg, wellFormed, mag) ==
    [ok  |-> wellFormed /\ LessN(mag, IF neg THEN MulAdd(TwoTo63, 1, 1) ELSE TwoTo63),
     neg |-> neg /\ mag # <<>>,
     mag |-> mag]

\* strconv.Atoi: an optional sign and at least one digit, nothing else
Atoi(s) ==
    AtoiResult(IsNegative(s), AllDigits(Unsigned(s)),
               IF AllDigits(Unsigned(s)) THEN DecValue(Unsigned(s), <<>>) ELSE <<>>)

(* ------------------------- time.ParseDuration ------------------------- *)

\* the unit map of package time, each unit as the factors of its length in
\* nanoseconds (the two non-ASCII spellings of "us" are outside the alphabet)
UnitNames == {<<"n", "s">>, <<"u", "s">>, <<"m", "s">>, <<"s">>, <<"m">>, <<"h">>}

UnitFactors(u) ==
    CASE u = <<"n", "s">> -> <<>>
      [] u = <<"u", "s">> -> <<1000>>
      [] u = <<"m", "s">> -> <<1000, 1000>>
      [] u = <<"s">>      -> <<1000, 1000, 1000>>
      [] u = <<"m">>      -> <<1000, 1000, 1000, 60>>
      [] u = <<"h">>      -> <<1000, 1000, 1000, 3600>>

RECURSIVE MulAll(_, _)
MulAll(x, fs) ==
    IF fs = <<>> THEN x ELSE MulAll(MulAdd(x, Head(fs), 0), Tail(fs))

RECURSIVE DivPow10(_, _)
DivPow10(x, k) == IF k = 0 THEN x ELSE DivPow10(DivSmall(x, 10), k - 1)

\* leadingInt: consumes [0-9]*, fails when the value passes 2^63
RECURSIVE LeadingInt(_, _)
LeadingInt(s, x) ==
    IF s = <<>> \/ ~IsDigit(s[1])
    THEN [ok |-> TRUE, v |-> x, rest |-> s]
    ELSE IF LessN(TwoTo63, MulAdd(x, 10, DigitVal(s[1])))
    THEN [ok |-> FALSE, v |-> <<>>, rest |-> s]
    ELSE LeadingInt(Tail(s), MulAdd(x, 10, DigitVal(s[1])))

\* leadingFraction: consumes [0-9]*, stops accumulating on overflow;
\* the scale is 10^digits
RECURSIVE LeadingFraction(_, _, _, _)
LeadingFraction(s, x, digits, overflow) ==
    IF s = <<>> \/ ~IsDigit(s[1])
    THEN [f |-> x, digits |-> digits, rest |-> s]
    ELSE IF overflow \/ LessN(TwoTo63, MulAdd(x, 10, DigitVal(s[1])))
    THEN LeadingFraction(Tail(s), x, digits, TRUE)
    ELSE LeadingFraction(Tail(s), MulAdd(x, 10, DigitVal(s[1])), digits + 1, FALSE)

\* the length of the unit: the characters up to the next '.' or digit
RECURSIVE UnitLen(_)
UnitLen(s) ==
    IF s = <<>> \/ s[1] = "." \/ IsDigit(s[1]) THEN 0 ELSE 1 + UnitLen(Tail(s))

\* a uint64 sum: the low 64 bits
U64(x) == Norm(ToInt64(x))

DurationError == [ok |-> FALSE, d |-> <<>>]

\* the loop over the terms  [0-9]*(\.[0-9]*)?[a-z]+  of a duration, one
\* operator per stage of the loop body, the last stage first
RECURSIVE ParseTerms(_, _)

\* d += v; if d > 1<<63: error; next term
TermAdded(rest, d2) ==
    IF LessN(TwoTo63, d2) THEN DurationError ELSE ParseTerms(rest, d2)

\* if f > 0: v += f * (unit / scale); if v > 1<<63: error
TermFraction(d, lf, rest, v2) ==
    IF lf.f # <<>> /\ LessN(TwoTo63, v2) THEN DurationError
    ELSE TermAdded(rest, U64(AddN(d, v2)))

\* if v > 1<<63 / unit: error; v *= unit
TermScaled(d, lf, rest, factors, v1) ==
    IF LessN(TwoTo63, v1) THEN DurationError
    ELSE TermFraction(d, lf, rest,
             IF lf.f # <<>>
             THEN U64(AddN(v1, DivPow10(MulAll(lf.f, factors), lf.digits)))
             ELSE v1)

\* the unit is looked up in the unit map
TermUnit(d, li, lf, u, rest) ==
    IF u \notin UnitNames THEN DurationError
    ELSE TermScaled(d, lf, rest, UnitFactors(u), MulAll(li.v, UnitFactors(u)))

\* a term needs a digit before or after the period, and a unit
TermDigits(d, li, lf, pre, post, i) ==
    IF ~pre /\ ~post THEN DurationError
    ELSE IF i = 0 THEN DurationError
    ELSE TermUnit(d, li, lf, SubSeq(lf.rest, 1, i),
                  SubSeq(lf.rest, i + 1, Len(lf.rest)))

\* consume (\.[0-9]*)? after the leading integer li of the term s
TermInt(s, d, li, hasDot, lf) ==
    IF ~li.ok THEN DurationError
    ELSE TermDigits(d, li, lf, Len(li.rest) # Len(s),
                    hasDot /\ Len(lf.rest) # Len(li.rest) - 1, UnitLen(lf.rest))

HasDot(s) == s # <<>> /\ s[1] = "."

FractionOf(s) ==
    IF HasDot(s) THEN LeadingFraction(Tail(s), <<>>, 0, FALSE)
    ELSE [f |-> <<>>, digits |-> 0, rest |-> s]

TermRest(s, d, li) == TermInt(s, d, li, HasDot(li.rest), FractionOf(li.rest))

ParseTerms(s, d) ==
    IF s = <<>> THEN [ok |-> TRUE, d |-> d]
    ELSE IF ~(s[1] = "." \/ IsDigit(s[1])) THEN DurationError
    ELSE TermRest(s, d, LeadingInt(s, <<>>))

\* the sign is applied; a positive value above 2^63 - 1 is an error
SignedDuration(neg, terms) ==
    IF ~terms.ok THEN DurationError
    ELSE IF neg THEN [ok |-> TRUE, d |-> NegInt64(ToInt64(terms.d))]
    ELSE IF ~LessN(terms.d, TwoTo63) THEN DurationError
    ELSE [ok |-> TRUE, d |-> ToInt64(terms.d)]

\* time.ParseDuration.  [ok, d] with d an int64
ParseDuration(s) ==
    IF Unsigned(s) = <<"0">> THEN [ok |-> TRUE, d |-> Int64Zero]
    ELSE IF Unsigned(s) = <<>> THEN DurationError
    ELSE SignedDuration(IsNegative(s), ParseTerms(Unsigned(s), <<>>))

(* --------------------------- readconfig.go ---------------------------- *)

\* time.Second, as the factors of its length in nanoseconds
Second == <<1000, 1000, 1000>>

\* time.Duration(n) * time.Second for an int n >= 0: an int64 product
SecondsOf(n) == ToInt64(MulAll(n, Second))

isBoolValueSet(val) == Len(val) > 0

\* a variant that also takes the capitalised spelling for true
parseBoolValueAnyCase(val) ==
    IF val \in {StrTrue, <<"T", "r", "u", "e">>} THEN TRUE ELSE FALSE

parseBoolValue(val) == IF val = StrTrue THEN TRUE ELSE FALSE

\* lines 32-43, with parsedVal, parseErr and duration, durationErr given
DurationOf(val, fallback, parsed, duration) ==
    IF Len(val) > 0 /\ parsed.ok /\ ~parsed.neg
    THEN SecondsOf(parsed.mag)
    ELSE IF ~duration.ok THEN fallback
    ELSE duration.d

parseIntOrDurationValue(val, fallback) ==
    DurationOf(val, fallback, Atoi(val), ParseDuration(val))

\* lines 47-54, with parsedVal, parseErr given; the int is an exact natural
IntOf(val, fallback, parsed) ==
    IF Len(val) > 0 /\ parsed.ok /\ ~parsed.neg
    THEN parsed.mag
    ELSE fallback

parseIntValue(val, fallback) == IntOf(val, fallback, Atoi(val))

\* the variables ReadConfig.Read looks up
EnvNames ==
    {"fprocess", "read_timeout", "write_timeout", "healthcheck_interval",
     "exec_timeout", "port", "write_debug", "cgi_headers", "marshal_request",
     "debug_headers", "suppress_lock", "content_type", "combine_output",
     "jwt_auth", "jwt_auth_debug", "jwt_auth_local", "max_inflight"}

\* the Go zero value of WatchdogConfig
ZeroConfig ==
    [faasProcess |-> <<>>, readTimeout |-> Int64Zero, writeTimeout |-> Int64Zero,
     healthcheckInterval |-> Int64Zero, execTimeout |-> Int64Zero,
     port |-> <<>>, writeDebug |-> FALSE, cgiHeaders |-> FALSE,
     marshalRequest |-> FALSE, debugHeaders |-> FALSE, suppressLock |-> FALSE,
     contentType |-> <<>>, combineOutput |-> FALSE, metricsPort |-> <<>>,
     jwtAuthentication |-> FALSE, jwtAuthDebug |-> FALSE,
     jwtAuthLocal |-> FALSE, maxInflight |-> <<>>]

defaultTimeout == SecondsOf(NatN(30))

\* a boolean field that keeps its default when the variable is not set
BoolOr(val, default) == IF isBoolValueSet(val) THEN parseBoolValue(val) ELSE default

\* ReadConfig.Read, lines 71-105, with cfg.writeTimeout given
ReadAfterWriteTimeout(hasEnv, writeTimeout) ==
    [faasProcess   |-> hasEnv["fprocess"],
     readTimeout   |-> parseIntOrDurationValue(hasEnv["read_timeout"], defaultTimeout),
     writeTimeout  |-> writeTimeout,
     healthcheckInterval |->
         parseIntOrDurationValue(hasEnv["healthcheck_interval"], writeTimeout),
     execTimeout   |-> parseIntOrDurationValue(hasEnv["exec_timeout"], SecondsOf(NatN(0))),
     port          |-> parseIntValue(hasEnv["port"], NatN(8080)),
     writeDebug    |-> BoolOr(hasEnv["write_debug"], FALSE),
     cgiHeaders    |-> BoolOr(hasEnv["cgi_headers"], TRUE),
     marshalRequest |-> parseBoolValue(hasEnv["marshal_request"]),
     debugHeaders  |-> parseBoolValue(hasEnv["debug_headers"]),
     suppressLock  |-> parseBoolValue(hasEnv["suppress_lock"]),
     contentType   |-> hasEnv["content_type"],
     combineOutput |-> BoolOr(hasEnv["combine_output"], TRUE),
     metricsPort   |-> NatN(8081),
     jwtAuthentication |-> parseBoolValue(hasEnv["jwt_auth"]),
     jwtAuthDebug  |-> parseBoolValue(hasEnv["jwt_auth_debug"]),
     jwtAuthLocal  |-> parseBoolValue(hasEnv["jwt_auth_local"]),
     maxInflight   |-> parseIntValue(hasEnv["max_inflight"], NatN(0))]

\* a variant of line 71 with the default timeout as the fallback
ReadWithDefaultInterval(hasEnv) ==
    [ReadAfterWriteTimeout(hasEnv,
         parseIntOrDurationValue(hasEnv["write_timeout"], defaultTimeout))
     EXCEPT !.healthcheckInterval =
         parseIntOrDurationValue(hasEnv["healthcheck_interval"], defaultTimeout)]

\* ReadConfig.Read
Read(hasEnv) ==
    ReadAfterWriteTimeout(hasEnv,
        parseIntOrDurationValue(hasEnv["write_timeout"], defaultTimeout))

(* ------------------------------- state -------------------------------- *)

VARIABLES
    env,                  \* the process environment (types.OsEnv)
    config,               \* main's config := readConfig.Read(osEnv)
    val, fallback, result,\* one call of parseIntOrDurationValue
    acceptingConnections, \* the package-level int32 ready-state
    lockFile,             \* whether <temp-dir>/.lock exists
    procState,            \* "running", "exited", "panicked" or "killed"
    mainpc, sigpc, srvpc, \* positions of main and of the two goroutines
    termSent, sigPending, \* SIGTERM was sent / is buffered in the channel sig
    handlersRegistered,   \* http.HandleFunc was called for both paths
    srvState,             \* the http.Server: "new", "listening", "closed", "stopped"
    idleConnsClosed,      \* the channel idleConnsClosed is closed
    inFlight,             \* the gauge httpMetrics.InFlight
    limiterCount,         \* the admission counter of the concurrency limiter
    reqs,                 \* the requests to "/", one per client connection
    healthStatus,         \* the pending answer to a request to /_/health (0: none)
    connections,          \* the gauge value logged before Shutdown (-1: none)
    removeErr,            \* markUnhealthy returned an error
    sigLog,               \* the steps the signal goroutine has taken, in order
    flags,                \* the command line: runHealthcheck, versionFlag
    fnEnv,                \* OPENFAAS_NAME, OPENFAAS_NAMESPACE, the namespace file
    lookedUp,             \* what makeJWTAuthHandler has looked up
    wrapped,              \* the handler of "/" is the JWT middleware
    exitCode,             \* the exit status of the process (-1: none)
    diagnostic            \* the message of the panic or fatal error ("": none)

vars == <<env, config, val, fallback, result, acceptingConnections, lockFile,
          procState, mainpc, sigpc, srvpc, termSent, sigPending,
          handlersRegistered, srvState, idleConnsClosed, inFlight,
          limiterCount, reqs, healthStatus, connections, removeErr,
          sigLog, flags, fnEnv, lookedUp, wrapped, exitCode, diagnostic>>

cfgVars  == <<env, config>>
callVars == <<val, fallback, result>>
lockVars == <<acceptingConnections, lockFile>>
mainVars == <<mainpc, handlersRegistered>>
sigVars  == <<sigpc, sigPending, connections, removeErr, sigLog>>
srvVars  == <<srvpc, srvState>>
reqVars  == <<inFlight, limiterCount, reqs>>
jwtVars  == <<flags, fnEnv, lookedUp, wrapped>>
exitVars == <<exitCode, diagnostic>>

Reqs == 1..MaxReqs

NoRequest == [pc |-> "idle", status |-> 0, body |-> "", child |-> "none"]

Running == procState = "running"

NoCall == <<"-">>

\* the command line without flags
NoFlags == [runHealthcheck |-> FALSE, versionFlag |-> FALSE]

\* OPENFAAS_NAME and OPENFAAS_NAMESPACE are "unset", "empty" or "set"; the
\* service-account namespace file is readable or not
NoFnEnv == [name |-> "unset", namespace |-> "unset", file |-> FALSE]

\* the messages the process dies with
DiagNoLockFile == "unable to find lock file."

DiagNoProcess == "Provide a valid process via fprocess environmental variable."

DiagJWT == "Error creating JWTAuthMiddleware"

DiagLockWrite == "Cannot write <temp-dir>/.lock. To disable lock-file set env suppress_lock=true."

DiagCloseClosed == "panic: close of closed channel"

(* ---------------------------- environments ---------------------------- *)

Str_cat == <<"c", "a", "t">>

EmptyEnv == [v \in EnvNames |-> <<>>]

Str_false == <<"f", "a", "l", "s", "e">>

\* the environments of the serving process: the lifecycle settings vary
LifecycleEnvs ==
    {[EmptyEnv EXCEPT !["fprocess"] = f, !["healthcheck_interval"] = h,
                      !["suppress_lock"] = l, !["max_inflight"] = <<"1">>,
                      !["combine_output"] = Str_false,
                      !["exec_timeout"] = <<"1">>] :
        f \in {<<>>, Str_cat},
        h \in {<<>>, <<"0">>},
        l \in {<<>>, StrTrue}}

\* the environments of the serving process: the handler settings vary
HandlerEnvs ==
    {[EmptyEnv EXCEPT !["fprocess"] = Str_cat, !["suppress_lock"] = l,
                      !["max_inflight"] = m, !["combine_output"] = c,
                      !["exec_timeout"] = x] :
        l \in {<<>>, StrTrue},
        m \in {<<>>, <<"1">>},
        c \in {<<>>, Str_false},
        x \in {<<"1">>}}

\* the boolean variables of the configuration and the values tried for each
BoolNames ==
    {"write_debug", "cgi_headers", "marshal_request", "debug_headers",
     "suppress_lock", "combine_output", "jwt_auth", "jwt_auth_debug",
     "jwt_auth_local"}

BoolValues == {<<>>, StrTrue, Str_false, <<"T", "r", "u", "e">>}

\* the environment that gives the boolean variables the values b
BoolEnv(b) == [v \in EnvNames |-> IF v \in BoolNames THEN b[v] ELSE <<>>]

\* the environments of a process at startup: the target command, the JWT
\* switch, the lock switch, the port and the write timeout vary
StartupEnvs ==
    {[EmptyEnv EXCEPT !["fprocess"] = f, !["jwt_auth"] = j,
                      !["suppress_lock"] = l, !["port"] = p,
                      !["write_timeout"] = w] :
        f \in {<<>>, Str_cat},
        j \in {<<>>, StrTrue},
        l \in {<<>>, StrTrue},
        p \in {<<>>, <<"7", "0", "0", "0", "0">>},
        w \in {<<>>, <<"-", "5", "s">>}}

\* the values tried for write_timeout and healthcheck_interval
TimeoutAlphabet == {"5", "s", "-"}

TimeoutValues == Strs(TimeoutAlphabet, MaxTimeoutLen)

\* the environments of the configuration loader: the timeouts vary
TimeoutEnvs ==
    {[EmptyEnv EXCEPT !["write_timeout"] = w, !["healthcheck_interval"] = h,
                      !["exec_timeout"] = x] :
        w \in TimeoutValues,
        h \in TimeoutValues,
        x \in {<<>>, <<"5">>, <<"s">>}}

\* the inputs of one call of parseIntOrDurationValue
Alphabet == {"0", "5", "-", "+", ".", "s", "m", "h"}

LongDigits == {"0", "9"}

Fallbacks == {Int64Zero, defaultTimeout}

\* the state of a process that has not run yet
InitState ==
    /\ config = ZeroConfig
    /\ acceptingConnections = 0
    /\ procState = "running"
    /\ sigpc = "none" /\ srvpc = "none"
    /\ lookedUp = {} /\ wrapped = FALSE
    /\ exitCode = -1 /\ diagnostic = ""
    /\ termSent = FALSE /\ sigPending = FALSE
    /\ handlersRegistered = FALSE
    /\ srvState = "new"
    /\ idleConnsClosed = FALSE
    /\ inFlight = 0 /\ limiterCount = 0
    /\ reqs = [r \in Reqs |-> NoRequest]
    /\ healthStatus = 0
    /\ connections = -1
    /\ removeErr = FALSE
    /\ sigLog = <<>>

\* the serving process at line 59: no flags, no lock file yet
InitProcess ==
    /\ InitState
    /\ mainpc = "start"
    /\ lockFile = FALSE
    /\ flags = NoFlags /\ fnEnv = NoFnEnv

InitNoCall == val = <<>> /\ fallback = Int64Zero /\ result = NoCall

Init == env \in LifecycleEnvs /\ InitProcess /\ InitNoCall

InitHandlers == env \in HandlerEnvs /\ InitProcess /\ InitNoCall

InitConfig ==
    /\ \E b \in [BoolNames -> BoolValues] : env = BoolEnv(b)
    /\ InitProcess /\ InitNoCall

\* a process at the start of main: the serving process, or the sibling
\* invocation with --run-healthcheck beside a serving process that may have
\* written its lock file
InitStartup ==
    /\ InitState /\ InitNoCall
    /\ mainpc = "flags"
    /\ env \in StartupEnvs
    /\ flags \in [runHealthcheck : BOOLEAN, versionFlag : BOOLEAN]
    /\ fnEnv \in [name : {"unset", "empty", "set"},
                  namespace : {"unset", "empty", "set"},
                  file : BOOLEAN]
    /\ lockFile \in (IF flags.runHealthcheck THEN BOOLEAN ELSE {FALSE})

InitTimeouts == env \in TimeoutEnvs /\ InitProcess /\ InitNoCall

InitDuration ==
    /\ env = EmptyEnv /\ InitProcess
    /\ \/ val \in Strs(Alphabet, MaxLen)
       \/ val \in Strs(LongDigits, MaxDigits)
    /\ fallback \in Fallbacks /\ result = NoCall

(* --------------------- one call of the duration parser ---------------- *)

CallParse ==
    /\ result = NoCall
    /\ result' = parseIntOrDurationValue(val, fallback)
    /\ UNCHANGED <<jwtVars, exitVars, cfgVars, val, fallback, lockVars, procState, mainVars,
                   sigVars, srvVars, termSent, idleConnsClosed, reqVars,
                   healthStatus>>

(* -------------------------------- main -------------------------------- *)

\* lockFilePresent: true iff the lock file exists
lockFilePresent == lockFile

\* a variant of lines 44-57 that tests the version flag first
MainFlagsVersionFirst ==
    /\ Running /\ mainpc = "flags"
    /\ IF flags.versionFlag
       THEN /\ procState' = "exited" /\ mainpc' = "returned"
            /\ exitCode' = 0 /\ diagnostic' = diagnostic
       ELSE IF flags.runHealthcheck
       THEN /\ procState' = "exited" /\ mainpc' = mainpc
            /\ exitCode' = IF lockFilePresent THEN 0 ELSE 1
            /\ diagnostic' = IF lockFilePresent THEN diagnostic ELSE DiagNoLockFile
       ELSE /\ mainpc' = "start"
            /\ UNCHANGED <<procState, exitVars>>
    /\ UNCHANGED <<jwtVars, cfgVars, callVars, lockVars, handlersRegistered,
                   sigVars, srvVars, termSent, idleConnsClosed, reqVars, healthStatus>>

\* main, lines 33-57: the flags are parsed; --run-healthcheck exits 0 when
\* the lock file is present and 1 after a message on stderr otherwise;
\* the version is printed; --version returns
MainFlags ==
    /\ Running /\ mainpc = "flags"
    /\ IF flags.runHealthcheck
       THEN /\ procState' = "exited" /\ mainpc' = mainpc
            /\ exitCode' = IF lockFilePresent THEN 0 ELSE 1
            /\ diagnostic' = IF lockFilePresent THEN diagnostic ELSE DiagNoLockFile
       ELSE IF flags.versionFlag
       THEN /\ procState' = "exited" /\ mainpc' = "returned"
            /\ exitCode' = 0 /\ diagnostic' = diagnostic
       ELSE /\ mainpc' = "start"
            /\ UNCHANGED <<procState, exitVars>>
    /\ UNCHANGED <<jwtVars, cfgVars, callVars, lockVars, handlersRegistered,
                   sigVars, srvVars, termSent, idleConnsClosed, reqVars, healthStatus>>

\* a variant of the store at line 59 that starts the process ready
MainStoreInitReady ==
    /\ Running /\ mainpc = "start"
    /\ acceptingConnections' = 1
    /\ mainpc' = "config"
    /\ UNCHANGED <<jwtVars, exitVars, cfgVars, callVars, lockFile, procState, handlersRegistered,
                   sigVars, srvVars, termSent, idleConnsClosed, reqVars, healthStatus>>

\* main, line 59: atomic.StoreInt32(&acceptingConnections, 0)
MainStoreInit ==
    /\ Running /\ mainpc = "start"
    /\ acceptingConnections' = 0
    /\ mainpc' = "config"
    /\ UNCHANGED <<jwtVars, exitVars, cfgVars, callVars, lockFile, procState, handlersRegistered,
                   sigVars, srvVars, termSent, idleConnsClosed, reqVars, healthStatus>>

\* main, lines 61-63: config := readConfig.Read(osEnv)
MainReadConfig ==
    /\ Running /\ mainpc = "config"
    /\ config' = Read(env)
    /\ mainpc' = "check"
    /\ UNCHANGED <<jwtVars, exitVars, env, callVars, lockVars, procState, handlersRegistered,
                   sigVars, srvVars, termSent, idleConnsClosed, reqVars, healthStatus>>

\* a variant of lines 65-68 that goes on without a target command
MainCheckProcessSkipped ==
    /\ Running /\ mainpc = "check"
    /\ procState' = procState /\ mainpc' = "register"
    /\ UNCHANGED <<jwtVars, exitVars, cfgVars, callVars, lockVars, handlersRegistered,
                   sigVars, srvVars, termSent, idleConnsClosed, reqVars, healthStatus>>

\* main, lines 65-68: an empty fprocess panics
MainCheckProcess ==
    /\ Running /\ mainpc = "check"
    /\ IF Len(config.faasProcess) = 0
       THEN /\ procState' = "panicked" /\ mainpc' = mainpc
            /\ exitCode' = 2 /\ diagnostic' = DiagNoProcess
       ELSE /\ procState' = procState /\ mainpc' = "register"
            /\ UNCHANGED exitVars
    /\ UNCHANGED <<jwtVars, cfgVars, callVars, lockVars, handlersRegistered,
                   sigVars, srvVars, termSent, idleConnsClosed, reqVars, healthStatus>>

\* getFnNamespace, lines 225-235: the variable when it is present, whatever
\* its value, and the service-account file otherwise
NamespaceResolved(e) == e.namespace # "unset" \/ e.file

\* getFnName, lines 214-221: the variable is to be present and non-empty
NameResolved(e) == e.name = "set"

\* makeJWTAuthHandler, lines 194-212: what it looks up; the name is looked
\* up only after the namespace is resolved
LookedUpBy(e) ==
    {"OPENFAAS_NAMESPACE"}
        \cup (IF e.namespace = "unset" THEN {"namespace file"} ELSE {})
        \cup (IF NamespaceResolved(e) THEN {"OPENFAAS_NAME"} ELSE {})

\* a variant of lines 91-98 that goes on when the middleware was not made
MainRegisterIgnoringError ==
    /\ Running /\ mainpc = "register"
    /\ lookedUp' = IF config.jwtAuthentication THEN LookedUpBy(fnEnv) ELSE lookedUp
    /\ wrapped' = config.jwtAuthentication
    /\ handlersRegistered' = TRUE
    /\ mainpc' = "listenUntilShutdown"
    /\ UNCHANGED <<flags, fnEnv, exitVars, cfgVars, callVars, lockVars, procState,
                   sigVars, srvVars, termSent, idleConnsClosed, reqVars, healthStatus>>

\* main, lines 70-108: the server value, the handlers, the metrics server.
\* With jwt_auth the handler of "/" is wrapped by the middleware (lines
\* 91-98); log.Fatalf ends the process when makeJWTAuthHandler fails, and
\* auth.NewJWTAuthMiddleware, an external package, may fail by itself
MainRegister ==
    /\ Running /\ mainpc = "register"
    /\ IF config.jwtAuthentication
       THEN /\ lookedUp' = LookedUpBy(fnEnv)
            /\ \E middleware \in BOOLEAN :
                 IF NamespaceResolved(fnEnv) /\ NameResolved(fnEnv) /\ middleware
                 THEN /\ wrapped' = TRUE
                      /\ handlersRegistered' = TRUE
                      /\ mainpc' = "listenUntilShutdown"
                      /\ UNCHANGED <<procState, exitVars>>
                 ELSE /\ procState' = "fatal"
                      /\ exitCode' = 1 /\ diagnostic' = DiagJWT
                      /\ UNCHANGED <<wrapped, handlersRegistered, mainpc>>
       ELSE /\ handlersRegistered' = TRUE
            /\ mainpc' = "listenUntilShutdown"
            /\ UNCHANGED <<lookedUp, wrapped, procState, exitVars>>
    /\ UNCHANGED <<flags, fnEnv, cfgVars, callVars, lockVars,
                   sigVars, srvVars, termSent, idleConnsClosed, reqVars, healthStatus>>

\* listenUntilShutdown, lines 119-159: the channel and the two goroutines
MainStartGoroutines ==
    /\ Running /\ mainpc = "listenUntilShutdown"
    /\ sigpc' = "notify"
    /\ srvpc' = "start"
    /\ mainpc' = "lock"
    /\ UNCHANGED <<jwtVars, exitVars, cfgVars, callVars, lockVars, procState, handlersRegistered,
                   sigPending, connections, removeErr, sigLog,
                   srvState, termSent, idleConnsClosed, reqVars, healthStatus>>

\* a variant of lines 161-166 with the flag stored before the file is written
MainCreateLockFileReadyFirst ==
    /\ Running /\ mainpc = "lock"
    /\ config.suppressLock = FALSE
    /\ acceptingConnections' = 1
    /\ \E written \in BOOLEAN :
         IF written
         THEN /\ lockFile' = TRUE /\ mainpc' = "lockWritten" /\ procState' = procState
              /\ UNCHANGED exitVars
         ELSE /\ lockFile' = lockFile /\ mainpc' = mainpc /\ procState' = "panicked"
              /\ exitCode' = 2 /\ diagnostic' = DiagLockWrite
    /\ UNCHANGED <<jwtVars, cfgVars, callVars, handlersRegistered,
                   sigVars, srvVars, termSent, idleConnsClosed, reqVars, healthStatus>>

\* listenUntilShutdown, lines 161-166: createLockFile writes the sentinel;
\* a failed write panics
MainCreateLockFile ==
    /\ Running /\ mainpc = "lock"
    /\ config.suppressLock = FALSE
    /\ \E written \in BOOLEAN :
         IF written
         THEN /\ lockFile' = TRUE /\ mainpc' = "lockWritten" /\ procState' = procState
              /\ UNCHANGED exitVars
         ELSE /\ lockFile' = lockFile /\ mainpc' = mainpc /\ procState' = "panicked"
              /\ exitCode' = 2 /\ diagnostic' = DiagLockWrite
    /\ UNCHANGED <<jwtVars, cfgVars, callVars, acceptingConnections, handlersRegistered,
                   sigVars, srvVars, termSent, idleConnsClosed, reqVars, healthStatus>>

\* createLockFile, on success: the ready-state becomes ready
MainLockReady ==
    /\ Running /\ mainpc = "lockWritten"
    /\ acceptingConnections' = 1
    /\ mainpc' = "wait"
    /\ UNCHANGED <<jwtVars, exitVars, cfgVars, callVars, lockFile, procState, handlersRegistered,
                   sigVars, srvVars, termSent, idleConnsClosed, reqVars, healthStatus>>

\* a variant of lines 161-171 with the test of suppressLock inverted
MainSuppressLockInverted ==
    /\ Running /\ mainpc = "lock"
    /\ config.suppressLock = FALSE
    /\ acceptingConnections' = 1
    /\ mainpc' = "wait"
    /\ UNCHANGED <<jwtVars, exitVars, cfgVars, callVars, lockFile, procState, handlersRegistered,
                   sigVars, srvVars, termSent, idleConnsClosed, reqVars, healthStatus>>

\* listenUntilShutdown, lines 167-171: suppress_lock
MainSuppressLock ==
    /\ Running /\ mainpc = "lock"
    /\ config.suppressLock # FALSE
    /\ acceptingConnections' = 1
    /\ mainpc' = "wait"
    /\ UNCHANGED <<jwtVars, exitVars, cfgVars, callVars, lockFile, procState, handlersRegistered,
                   sigVars, srvVars, termSent, idleConnsClosed, reqVars, healthStatus>>

\* listenUntilShutdown, line 173: <-idleConnsClosed, then main returns
MainReturn ==
    /\ Running /\ mainpc = "wait"
    /\ idleConnsClosed
    /\ procState' = "exited"
    /\ exitCode' = 0
    /\ mainpc' = "returned"
    /\ UNCHANGED <<jwtVars, diagnostic, cfgVars, callVars, lockVars, handlersRegistered,
                   sigVars, srvVars, termSent, idleConnsClosed, reqVars, healthStatus>>

(* ------------------------ the signal goroutine ------------------------ *)

\* the kernel delivers SIGTERM: before signal.Notify the default disposition
\* ends the process, afterwards the signal is buffered in the channel sig
EnvSigterm ==
    /\ Running /\ ~termSent
    /\ termSent' = TRUE
    /\ IF sigpc \in {"none", "notify"}
       THEN procState' = "killed" /\ sigPending' = sigPending
       ELSE procState' = procState /\ sigPending' = TRUE
    /\ UNCHANGED <<jwtVars, exitVars, cfgVars, callVars, lockVars, mainVars, sigpc, connections,
                   removeErr, sigLog, srvVars,
                   idleConnsClosed, reqVars, healthStatus>>

\* lines 121-122: signal.Notify(sig, syscall.SIGTERM)
SigNotify ==
    /\ Running /\ sigpc = "notify"
    /\ sigpc' = "recv"
    /\ UNCHANGED <<jwtVars, exitVars, cfgVars, callVars, lockVars, procState, mainVars, sigPending,
                   connections, removeErr, sigLog, srvVars,
                   termSent, idleConnsClosed, reqVars, healthStatus>>

\* line 124: <-sig
SigReceive ==
    /\ Running /\ sigpc = "recv"
    /\ sigPending
    /\ sigPending' = FALSE
    /\ sigpc' = "markStore"
    /\ UNCHANGED <<jwtVars, exitVars, cfgVars, callVars, lockVars, procState, mainVars,
                   connections, removeErr, sigLog, srvVars,
                   termSent, idleConnsClosed, reqVars, healthStatus>>

\* markUnhealthy, line 177: atomic.StoreInt32(&acceptingConnections, 0)
SigMarkStore ==
    /\ Running /\ sigpc = "markStore"
    /\ acceptingConnections' = 0
    /\ sigLog' = Append(sigLog, "notReady")
    /\ sigpc' = "markRemove"
    /\ UNCHANGED <<jwtVars, exitVars, cfgVars, callVars, lockFile, procState, mainVars, sigPending,
                   connections, removeErr, srvVars,
                   termSent, idleConnsClosed, reqVars, healthStatus>>

\* a variant of the goroutine that goes from markUnhealthy straight to
\* Shutdown, without the drain wait
SigMarkRemoveNoDrain ==
    /\ Running /\ sigpc = "markRemove"
    /\ lockFile' = FALSE
    /\ removeErr' = ~lockFile
    /\ sigLog' = Append(sigLog, "remove")
    /\ sigpc' = "shutdown"
    /\ UNCHANGED <<jwtVars, exitVars, cfgVars, callVars, acceptingConnections, procState, mainVars,
                   sigPending, connections, srvVars,
                   termSent, idleConnsClosed, reqVars, healthStatus>>

\* markUnhealthy, lines 179-182: os.Remove(path); the error of a missing
\* file is returned and logged at line 129
SigMarkRemove ==
    /\ Running /\ sigpc = "markRemove"
    /\ lockFile' = FALSE
    /\ removeErr' = ~lockFile
    /\ sigLog' = Append(sigLog, "remove")
    /\ sigpc' = "tick"
    /\ UNCHANGED <<jwtVars, exitVars, cfgVars, callVars, acceptingConnections, procState, mainVars,
                   sigPending, connections, srvVars,
                   termSent, idleConnsClosed, reqVars, healthStatus>>

\* line 132: <-time.Tick(healthcheckInterval).  time.Tick returns a nil
\* channel for an interval <= 0, and a receive from it never completes
SigDrain ==
    /\ Running /\ sigpc = "tick"
    /\ IsPos64(config.healthcheckInterval)
    /\ sigLog' = Append(sigLog, "drain")
    /\ sigpc' = "gauge"
    /\ UNCHANGED <<jwtVars, exitVars, cfgVars, callVars, lockVars, procState, mainVars, sigPending,
                   connections, removeErr, srvVars,
                   termSent, idleConnsClosed, reqVars, healthStatus>>

\* a variant of lines 134-135 that reads the admission counter instead
SigReadGaugeOfLimiter ==
    /\ Running /\ sigpc = "gauge"
    /\ connections' = limiterCount
    /\ sigLog' = Append(sigLog, "gauge")
    /\ sigpc' = "shutdown"
    /\ UNCHANGED <<jwtVars, exitVars, cfgVars, callVars, lockVars, procState, mainVars, sigPending,
                   removeErr, srvVars,
                   termSent, idleConnsClosed, reqVars, healthStatus>>

\* lines 134-135: the in-flight gauge is read and logged
SigReadGauge ==
    /\ Running /\ sigpc = "gauge"
    /\ connections' = inFlight
    /\ sigLog' = Append(sigLog, "gauge")
    /\ sigpc' = "shutdown"
    /\ UNCHANGED <<jwtVars, exitVars, cfgVars, callVars, lockVars, procState, mainVars, sigPending,
                   removeErr, srvVars,
                   termSent, idleConnsClosed, reqVars, healthStatus>>

\* lines 139-142: s.Shutdown(ctx) closes the listener
SigShutdown ==
    /\ Running /\ sigpc = "shutdown"
    /\ srvState' = "closed"
    /\ sigLog' = Append(sigLog, "shutdown")
    /\ sigpc' = "shutdownWait"
    /\ UNCHANGED <<jwtVars, exitVars, cfgVars, callVars, lockVars, procState, mainVars, sigPending,
                   connections, removeErr, srvpc,
                   termSent, idleConnsClosed, reqVars, healthStatus>>

\* lines 142-144: Shutdown returns, when the connections are idle or when
\* the context of writeTimeout expires, whichever is first
SigShutdownReturn ==
    /\ Running /\ sigpc = "shutdownWait"
    /\ sigpc' = "final"
    /\ UNCHANGED <<jwtVars, exitVars, cfgVars, callVars, lockVars, procState, mainVars, sigPending,
                   connections, removeErr, sigLog, srvVars,
                   termSent, idleConnsClosed, reqVars, healthStatus>>

\* lines 146-148: the final in-flight count is read and logged
SigReadFinal ==
    /\ Running /\ sigpc = "final"
    /\ sigLog' = Append(sigLog, "final")
    /\ sigpc' = "close"
    /\ UNCHANGED <<jwtVars, exitVars, cfgVars, callVars, lockVars, procState, mainVars, sigPending,
                   connections, removeErr, srvVars,
                   termSent, idleConnsClosed, reqVars, healthStatus>>

\* line 150: close(idleConnsClosed); closing a closed channel panics
SigClose ==
    /\ Running /\ sigpc = "close"
    /\ IF idleConnsClosed
       THEN /\ procState' = "panicked"
            /\ exitCode' = 2 /\ diagnostic' = DiagCloseClosed
            /\ UNCHANGED <<idleConnsClosed, sigpc, sigLog>>
       ELSE /\ idleConnsClosed' = TRUE
            /\ sigLog' = Append(sigLog, "close")
            /\ sigpc' = "done"
            /\ procState' = procState
            /\ UNCHANGED exitVars
    /\ UNCHANGED <<jwtVars, cfgVars, callVars, lockVars, mainVars, sigPending,
                   connections, removeErr, srvVars,
                   termSent, reqVars, healthStatus>>

(* ------------------------ the server goroutine ------------------------ *)

\* the address ":<port>" names a TCP port
ValidPort == LessN(config.port, NatN(65536))

\* line 155: s.ListenAndServe() binds the port, or fails to, or finds the
\* server already shut down and returns http.ErrServerClosed; the goroutine
\* then ends without closing the channel
SrvListenAndServe ==
    /\ Running /\ srvpc = "start"
    /\ IF srvState = "closed"
       THEN srvpc' = "serverClosed" /\ srvState' = srvState
       ELSE \E bound \in BOOLEAN :
              IF bound /\ ValidPort
              THEN srvpc' = "serving" /\ srvState' = "listening"
              ELSE srvpc' = "failed" /\ srvState' = "stopped"
    /\ UNCHANGED <<jwtVars, exitVars, cfgVars, callVars, lockVars, procState, mainVars, sigVars,
                   termSent, idleConnsClosed, reqVars, healthStatus>>

\* a variant of lines 155-158 without the test for http.ErrServerClosed
SrvServeClosedClosing ==
    /\ Running /\ srvpc = "serving" /\ srvState = "closed"
    /\ srvpc' = "serverClosed"
    /\ idleConnsClosed' = TRUE
    /\ UNCHANGED <<jwtVars, exitVars, cfgVars, callVars, lockVars, procState, mainVars, sigVars,
                   srvState, termSent, reqVars, healthStatus>>

\* line 155: ListenAndServe returns http.ErrServerClosed after Shutdown
SrvServeClosed ==
    /\ Running /\ srvpc = "serving" /\ srvState = "closed"
    /\ srvpc' = "serverClosed"
    /\ UNCHANGED <<jwtVars, exitVars, cfgVars, callVars, lockVars, procState, mainVars, sigVars,
                   srvState, termSent, idleConnsClosed, reqVars, healthStatus>>

\* line 155: ListenAndServe returns another error (Accept failed)
SrvServeError ==
    /\ Running /\ srvpc = "serving" /\ srvState = "listening"
    /\ srvpc' = "failed"
    /\ srvState' = "stopped"
    /\ UNCHANGED <<jwtVars, exitVars, cfgVars, callVars, lockVars, procState, mainVars, sigVars,
                   termSent, idleConnsClosed, reqVars, healthStatus>>

\* lines 156-157: the error is logged and idleConnsClosed is closed
SrvCloseIdle ==
    /\ Running /\ srvpc = "failed"
    /\ IF idleConnsClosed
       THEN /\ procState' = "panicked"
            /\ exitCode' = 2 /\ diagnostic' = DiagCloseClosed
            /\ UNCHANGED <<idleConnsClosed, srvpc>>
       ELSE /\ idleConnsClosed' = TRUE /\ srvpc' = "done" /\ procState' = procState
            /\ UNCHANGED exitVars
    /\ UNCHANGED <<jwtVars, cfgVars, callVars, lockVars, mainVars, sigVars,
                   srvState, termSent, reqVars, healthStatus>>

(* ------------------------- the health endpoint ------------------------ *)

\* makeHealthHandler, registered at line 100: 200 when the ready-state is
\* ready, 503 otherwise
HealthRequest ==
    /\ Running /\ handlersRegistered /\ srvState = "listening"
    /\ healthStatus = 0
    /\ healthStatus' = IF acceptingConnections = 1 THEN 200 ELSE 503
    /\ UNCHANGED <<jwtVars, exitVars, cfgVars, callVars, lockVars, procState, mainVars, sigVars,
                   srvVars, termSent, idleConnsClosed, reqVars>>

\* the prober has read the answer
HealthDone ==
    /\ Running /\ healthStatus # 0
    /\ healthStatus' = 0
    /\ UNCHANGED <<jwtVars, exitVars, cfgVars, callVars, lockVars, procState, mainVars, sigVars,
                   srvVars, termSent, idleConnsClosed, reqVars>>

(* ------------------------ the function endpoint ----------------------- *)

HasLimit == config.maxInflight # <<>>

\* metrics.InstrumentHandler, registered at line 101: the in-flight gauge is
\* incremented at handler entry
ReqEnter(r) ==
    /\ Running /\ handlersRegistered /\ srvState = "listening"
    /\ reqs[r].pc = "idle"
    /\ inFlight' = inFlight + 1
    /\ reqs' = [reqs EXCEPT ![r] = [NoRequest EXCEPT !.pc = "gate"]]
    /\ UNCHANGED <<jwtVars, exitVars, cfgVars, callVars, lockVars, procState, mainVars, sigVars,
                   srvVars, termSent, idleConnsClosed, limiterCount, healthStatus>>

\* a variant of the limiter that tests the counter before the increment
ReqAdmitOffByOne(r) ==
    /\ Running /\ reqs[r].pc = "gate"
    /\ IF HasLimit
       THEN /\ limiterCount' = limiterCount + 1
            /\ reqs' = [reqs EXCEPT ![r].pc =
                          IF LessN(config.maxInflight, NatN(limiterCount))
                          THEN "over" ELSE "spawn"]
       ELSE /\ limiterCount' = limiterCount
            /\ reqs' = [reqs EXCEPT ![r].pc = "spawn"]
    /\ UNCHANGED <<jwtVars, exitVars, cfgVars, callVars, lockVars, procState, mainVars, sigVars,
                   srvVars, termSent, idleConnsClosed, inFlight, healthStatus>>

\* the concurrency limiter: with max_inflight > 0 the counter is incremented
\* atomically and the value after the increment decides
ReqAdmit(r) ==
    /\ Running /\ reqs[r].pc = "gate"
    /\ IF HasLimit
       THEN /\ limiterCount' = limiterCount + 1
            /\ reqs' = [reqs EXCEPT ![r].pc =
                          IF LessN(config.maxInflight, NatN(limiterCount + 1))
                          THEN "over" ELSE "spawn"]
       ELSE /\ limiterCount' = limiterCount
            /\ reqs' = [reqs EXCEPT ![r].pc = "spawn"]
    /\ UNCHANGED <<jwtVars, exitVars, cfgVars, callVars, lockVars, procState, mainVars, sigVars,
                   srvVars, termSent, idleConnsClosed, inFlight, healthStatus>>

\* the concurrency limiter over its limit: decrement, answer 429
ReqReject(r) ==
    /\ Running /\ reqs[r].pc = "over"
    /\ limiterCount' = limiterCount - 1
    /\ reqs' = [reqs EXCEPT ![r].pc = "exit", ![r].status = 429,
                            ![r].body = "concurrent request limit exceeded"]
    /\ UNCHANGED <<jwtVars, exitVars, cfgVars, callVars, lockVars, procState, mainVars, sigVars,
                   srvVars, termSent, idleConnsClosed, inFlight, healthStatus>>

\* the invocation pipeline spawns the child; a failed start is answered 500
ReqSpawn(r) ==
    /\ Running /\ reqs[r].pc = "spawn"
    /\ \E started \in BOOLEAN :
         reqs' = IF started
                 THEN [reqs EXCEPT ![r].pc = "running", ![r].child = "running"]
                 ELSE [reqs EXCEPT ![r].pc = "release", ![r].child = "failed",
                                   ![r].status = 500, ![r].body = "error"]
    /\ UNCHANGED <<jwtVars, exitVars, cfgVars, callVars, lockVars, procState, mainVars, sigVars,
                   srvVars, termSent, idleConnsClosed, inFlight, limiterCount,
                   healthStatus>>

\* a variant of the pipeline that answers 500 for every non-zero exit
ReqChildExitAlways500(r) ==
    /\ Running /\ reqs[r].pc = "running"
    /\ \E code \in {0, 1} :
         reqs' = IF code # 0
                 THEN [reqs EXCEPT ![r].pc = "release", ![r].child = "nonzero",
                                   ![r].status = 500, ![r].body = "stderr"]
                 ELSE [reqs EXCEPT ![r].pc = "release", ![r].child = "zero",
                                   ![r].status = 200, ![r].body = "output"]
    /\ UNCHANGED <<jwtVars, exitVars, cfgVars, callVars, lockVars, procState, mainVars, sigVars,
                   srvVars, termSent, idleConnsClosed, inFlight, limiterCount,
                   healthStatus>>

\* the child exits: 200 with the captured output, or 500 with stderr when it
\* exited non-zero and combine_output is off
ReqChildExit(r) ==
    /\ Running /\ reqs[r].pc = "running"
    /\ \E code \in {0, 1} :
         reqs' = IF code # 0 /\ ~config.combineOutput
                 THEN [reqs EXCEPT ![r].pc = "release", ![r].child = "nonzero",
                                   ![r].status = 500, ![r].body = "stderr"]
                 ELSE [reqs EXCEPT ![r].pc = "release",
                                   ![r].child = IF code = 0 THEN "zero" ELSE "nonzero",
                                   ![r].status = 200, ![r].body = "output"]
    /\ UNCHANGED <<jwtVars, exitVars, cfgVars, callVars, lockVars, procState, mainVars, sigVars,
                   srvVars, termSent, idleConnsClosed, inFlight, limiterCount,
                   healthStatus>>

\* the hard timeout (exec_timeout > 0) fires: the child is killed, 502
ReqHardTimeout(r) ==
    /\ Running /\ reqs[r].pc = "running"
    /\ IsPos64(config.execTimeout)
    /\ reqs' = [reqs EXCEPT ![r].pc = "release", ![r].child = "killed",
                            ![r].status = 502, ![r].body = "timeout"]
    /\ UNCHANGED <<jwtVars, exitVars, cfgVars, callVars, lockVars, procState, mainVars, sigVars,
                   srvVars, termSent, idleConnsClosed, inFlight, limiterCount,
                   healthStatus>>

\* the concurrency limiter at the exit of the admitted handler
ReqRelease(r) ==
    /\ Running /\ reqs[r].pc = "release"
    /\ limiterCount' = IF HasLimit THEN limiterCount - 1 ELSE limiterCount
    /\ reqs' = [reqs EXCEPT ![r].pc = "exit"]
    /\ UNCHANGED <<jwtVars, exitVars, cfgVars, callVars, lockVars, procState, mainVars, sigVars,
                   srvVars, termSent, idleConnsClosed, inFlight, healthStatus>>

\* metrics.InstrumentHandler: the in-flight gauge is decremented at exit
ReqExit(r) ==
    /\ Running /\ reqs[r].pc = "exit"
    /\ inFlight' = inFlight - 1
    /\ reqs' = [reqs EXCEPT ![r] = NoRequest]
    /\ UNCHANGED <<jwtVars, exitVars, cfgVars, callVars, lockVars, procState, mainVars, sigVars,
                   srvVars, termSent, idleConnsClosed, limiterCount, healthStatus>>

(* --------------------------- specifications --------------------------- *)

MainNext ==
    \/ MainStoreInit \/ MainReadConfig \/ MainCheckProcess \/ MainRegister
    \/ MainStartGoroutines \/ MainCreateLockFile \/ MainLockReady
    \/ MainSuppressLock \/ MainReturn

SigNext ==
    \/ SigNotify \/ SigReceive \/ SigMarkStore \/ SigMarkRemove \/ SigDrain
    \/ SigReadGauge \/ SigShutdown \/ SigShutdownReturn \/ SigReadFinal
    \/ SigClose

SrvNext ==
    \/ SrvListenAndServe \/ SrvServeClosed \/ SrvServeError \/ SrvCloseIdle

ReqNext ==
    \E r \in Reqs :
        \/ ReqEnter(r) \/ ReqAdmit(r) \/ ReqReject(r) \/ ReqSpawn(r)
        \/ ReqChildExit(r) \/ ReqHardTimeout(r) \/ ReqRelease(r) \/ ReqExit(r)

Next ==
    \/ MainNext \/ SigNext \/ SrvNext \/ EnvSigterm
    \/ HealthRequest \/ HealthDone \/ ReqNext

Spec == Init /\ [][Next]_vars

\* the serving process over the handler settings
SpecHandlers == InitHandlers /\ [][Next]_vars

\* the configuration loader over the boolean variables
NextConfig == MainStoreInit \/ MainReadConfig

SpecConfig == InitConfig /\ [][NextConfig]_vars

\* the configuration loader over the timeout variables
SpecTimeouts == InitTimeouts /\ [][NextConfig]_vars

\* main from its first line up to the serving state
NextStartup ==
    \/ MainFlags \/ MainNext
    \/ SrvListenAndServe \/ SrvServeError \/ SrvCloseIdle
    \/ HealthRequest \/ HealthDone

SpecStartup == InitStartup /\ [][NextStartup]_vars

\* parseIntOrDurationValue over the bounded inputs
NextDuration == CallParse

SpecDuration == InitDuration /\ [][NextDuration]_vars

(* ------------------------------- claims ------------------------------- *)

\* an int64 d holds exactly the natural n
HoldsExactly(d, n) == ~IsNeg64(d) /\ Norm(d) = n

\* a plain non-negative integer: digits only
IsPlainInt(s) == s # <<>> /\ \A i \in 1..Len(s) : IsDigit(s[i])

\* digits followed by one unit, such as 500ms, 5s or 2m
UnitStart(s) ==
    CHOOSE k \in 1..(Len(s) + 1) :
        /\ \A i \in 1..(k - 1) : IsDigit(s[i])
        /\ k = Len(s) + 1 \/ ~IsDigit(s[k])

IsSimpleDuration(s) ==
    /\ s # <<>>
    /\ UnitStart(s) > 1
    /\ SubSeq(s, UnitStart(s), Len(s)) \in UnitNames

SimpleDurationValue(s) ==
    MulAll(DecValue(SubSeq(s, 1, UnitStart(s) - 1), <<>>),
           UnitFactors(SubSeq(s, UnitStart(s), Len(s))))

ParsesNeitherWay(s) ==
    /\ ~(Atoi(s).ok /\ ~Atoi(s).neg)
    /\ ~ParseDuration(s).ok

\* C9: parseIntOrDurationValue(val, fallback) yields n seconds for a plain
\* non-negative integer n, the duration written for a duration string such
\* as 500ms, 5s or 2m, and the fallback for the empty string and for every
\* string that parses neither way.
C9_ParseYieldsSecondsDurationOrFallback ==
    result # NoCall =>
        /\ IsPlainInt(val) =>
               HoldsExactly(result, MulAll(DecValue(val, <<>>), Second))
        /\ IsSimpleDuration(val) =>
               HoldsExactly(result, SimpleDurationValue(val))
        /\ (val = <<>> \/ ParsesNeitherWay(val)) => result = fallback

\* what a boolean field is to hold for the variable v with the given default
BoolFieldOf(v, default) == IF env[v] = <<>> THEN default ELSE env[v] = StrTrue

\* C10: once Read has returned, every boolean field holds its listed default
\* when its variable is empty (cgi-headers and combine-output true, the others
\* false), and otherwise is true exactly when the value is the literal "true".
C10_BooleanFieldsDefaultOrLiteralTrue ==
    mainpc = "check" =>
        /\ config.writeDebug = BoolFieldOf("write_debug", FALSE)
        /\ config.cgiHeaders = BoolFieldOf("cgi_headers", TRUE)
        /\ config.marshalRequest = BoolFieldOf("marshal_request", FALSE)
        /\ config.debugHeaders = BoolFieldOf("debug_headers", FALSE)
        /\ config.suppressLock = BoolFieldOf("suppress_lock", FALSE)
        /\ config.combineOutput = BoolFieldOf("combine_output", TRUE)
        /\ config.jwtAuthentication = BoolFieldOf("jwt_auth", FALSE)
        /\ config.jwtAuthDebug = BoolFieldOf("jwt_auth_debug", FALSE)
        /\ config.jwtAuthLocal = BoolFieldOf("jwt_auth_local", FALSE)

\* Read has returned for an environment with an unset, a true, a false and a
\* capitalised value
C10_Witness ==
    /\ mainpc = "check"
    /\ env["combine_output"] = <<>> /\ config.combineOutput
    /\ env["write_debug"] = StrTrue /\ config.writeDebug
    /\ env["cgi_headers"] = <<"T", "r", "u", "e">> /\ ~config.cgiHeaders
    /\ env["suppress_lock"] = Str_false /\ ~config.suppressLock

\* the order of the steps of the shutdown coordinator
ShutdownOrder ==
    <<"notReady", "remove", "drain", "gauge", "shutdown", "final", "close">>

\* C1: the steps the signal goroutine has taken are, in every state, an
\* initial part of: ready-state flipped to not-ready, lock file removed,
\* drain wait completed, gauge read, Shutdown called, final count read,
\* channel closed; and the server is shut down only after the flip, the
\* removal and the drain wait.
C1_ShutdownStepsInOrder ==
    /\ Len(sigLog) <= Len(ShutdownOrder)
    /\ sigLog = SubSeq(ShutdownOrder, 1, Len(sigLog))
    /\ srvState = "closed" => Len(sigLog) >= 5

\* the signal goroutine has run to the end and main has returned
C1_Witness ==
    /\ sigLog = ShutdownOrder
    /\ srvState = "closed"
    /\ procState = "exited"

\* C2: once the signal goroutine has executed markUnhealthy, the lock file
\* does not exist and the ready-state is not-ready in every later state.
C2_UnhealthyAfterSigterm ==
    Len(sigLog) >= 2 => (~lockFile /\ acceptingConnections = 0)

\* C3 as stated: in every reachable state the lock file exists if and only
\* if the ready-state is ready and suppress-lock is false.
C3_LockFileIffReady ==
    lockFile <=> (acceptingConnections = 1 /\ ~config.suppressLock)

\* C3 as amended: the lock file exists only with suppress-lock false; it
\* exists while the ready-state is not-ready only between the write and the
\* flag store of lock-file creation or from the flag store of markUnhealthy
\* on; the ready-state is ready without a lock file (suppress-lock false)
\* only after the removal of markUnhealthy.  So outside lock-file creation
\* and before markUnhealthy the equivalence holds.
C3_LockFileIffReadyOutsideTransitions ==
    /\ lockFile => ~config.suppressLock
    /\ (lockFile /\ acceptingConnections = 0) =>
           (mainpc = "lockWritten" \/ Len(sigLog) >= 1)
    /\ (~lockFile /\ acceptingConnections = 1 /\ ~config.suppressLock) =>
           Len(sigLog) >= 2
    /\ (mainpc # "lockWritten" /\ sigLog = <<>>) => C3_LockFileIffReady

\* startup has completed with a lock file and no SIGTERM has been handled
C3_Witness ==
    /\ mainpc = "wait" /\ sigLog = <<>>
    /\ lockFile /\ acceptingConnections = 1 /\ ~config.suppressLock

\* C4: once the signal goroutine has received SIGTERM, its next step can
\* always be taken until it has closed the channel, and then main can return:
\* the shutdown is never left waiting for something that cannot happen.
C4_ShutdownNeverBlocks ==
    (Running /\ sigpc \notin {"none", "notify", "recv"}) =>
        IF sigpc # "done" THEN ENABLED SigNext ELSE ENABLED MainNext

\* main's positions before the ready-state is flipped to ready
BeforeReady ==
    {"start", "config", "check", "register", "listenUntilShutdown", "lock",
     "lockWritten"}

\* C5: a request to /_/health is answered 200 when the ready-state is ready
\* at the time it is handled and 503 otherwise, and no request handled
\* before main has flipped the ready-state is answered 200.
C5_HealthMirrorsReadyState ==
    /\ [](mainpc \in BeforeReady => healthStatus # 200)
    /\ [][(healthStatus = 0 /\ healthStatus' # 0) =>
             healthStatus' = IF acceptingConnections = 1 THEN 200 ELSE 503]_vars

\* the server listens and has answered 503 before the lock file is written
C5_Witness ==
    /\ mainpc = "lock" /\ srvState = "listening" /\ ~lockFile
    /\ healthStatus = 503

\* the requests past the admission gate
PastGate == {r \in Reqs : reqs[r].pc \in {"spawn", "running", "release"}}

\* the requests counted by the limiter
Counted == {r \in Reqs : reqs[r].pc \in {"over", "spawn", "running", "release"}}

\* C6: with max-in-flight N > 0 at most N requests are past the admission
\* gate at any time; a request answered 429 has the body `concurrent request
\* limit exceeded`, has given its increment back and has invoked no child.
C6_AtMostNPastTheGate ==
    HasLimit =>
        /\ ~LessN(config.maxInflight, NatN(Cardinality(PastGate)))
        /\ limiterCount = Cardinality(Counted)
        /\ \A r \in Reqs :
               /\ reqs[r].pc = "over" => reqs[r].child = "none"
               /\ reqs[r].status = 429 =>
                      /\ reqs[r].child = "none"
                      /\ reqs[r].body = "concurrent request limit exceeded"
                      /\ r \notin Counted

\* with a limit of 1, one request runs its child and another was rejected
C6_Witness ==
    /\ config.maxInflight = NatN(1)
    /\ \E r1, r2 \in Reqs :
           /\ reqs[r1].pc = "running" /\ reqs[r1].child = "running"
           /\ reqs[r2].status = 429

\* the handlers of the function endpoint that are executing
Executing == {r \in Reqs : reqs[r].pc # "idle"}

\* C7: the in-flight gauge equals the number of executing handlers of the
\* function endpoint in every state, whatever their outcome, so it is never
\* negative and is 0 when none runs; and the value the shutdown coordinator
\* reads is that number.
C7_GaugeCountsExecutingHandlers ==
    /\ [](inFlight = Cardinality(Executing) /\ inFlight >= 0)
    /\ [][connections' # connections =>
             connections' = Cardinality(Executing)]_vars

\* the coordinator has read the gauge while one handler was executing and
\* another request had been rejected
C7_Witness ==
    /\ sigpc = "shutdown" /\ connections = 2
    /\ \E r1, r2 \in Reqs :
           reqs[r1].status = 429 /\ reqs[r2].status = 502

\* the requests that invoked the pipeline and have their answer
Answered == {r \in Reqs : reqs[r].child # "none" /\ reqs[r].status # 0}

\* C8 as stated: the status of an invocation is 500 if and only if it failed
\* to start, timed out hard, or the child exited non-zero with combine-output
\* disabled.
C8_Status500Iff ==
    \A r \in Answered :
        reqs[r].status = 500 <=>
            \/ reqs[r].child = "failed"
            \/ reqs[r].child = "killed"
            \/ reqs[r].child = "nonzero" /\ ~config.combineOutput

\* C8 as amended: the status of an invocation is 500 if and only if it failed
\* to start or the child exited non-zero with combine-output disabled; a hard
\* timeout is answered 502.
C8_Status500IffNotTimeout ==
    \A r \in Answered :
        /\ reqs[r].status = 500 <=>
               \/ reqs[r].child = "failed"
               \/ reqs[r].child = "nonzero" /\ ~config.combineOutput
        /\ reqs[r].child = "killed" => reqs[r].status = 502

\* an invocation was answered 500 for a non-zero exit with combine-output
\* disabled
C8_Witness ==
    \E r \in Answered :
        /\ reqs[r].child = "nonzero" /\ ~config.combineOutput
        /\ reqs[r].status = 500

\* nothing of the server has been set up: no handler, no listener, no
\* goroutine, no lock file, the ready-state not-ready
NoServerSetup ==
    /\ ~handlersRegistered
    /\ srvState = "new" /\ srvpc = "none" /\ sigpc = "none"
    /\ ~idleConnsClosed
    /\ acceptingConnections = 0

\* C11: a process started with --run-healthcheck, with or without --version,
\* never leaves the first lines of main: it reads no configuration, writes
\* no ready-state, registers no handler, starts no listener and leaves the
\* lock file as it is; when it has ended it has exited 0 if the lock file
\* is present and 1, after a message on stderr, otherwise.
C11_HealthcheckShortCircuits ==
    flags.runHealthcheck =>
        /\ mainpc = "flags"
        /\ config = ZeroConfig
        /\ NoServerSetup
        /\ ~Running =>
               /\ procState = "exited"
               /\ exitCode = IF lockFile THEN 0 ELSE 1
               /\ diagnostic = IF lockFile THEN "" ELSE DiagNoLockFile

\* the healthcheck invocation, given --version too, has found no lock file
C11_Witness ==
    /\ flags.runHealthcheck /\ flags.versionFlag
    /\ ~lockFile /\ procState = "exited" /\ exitCode = 1

\* main's positions before listenUntilShutdown is called
StartupPositions == {"flags", "start", "config", "check", "register"}

\* the process has died of a panic or of log.Fatalf
DiedFatally == procState \in {"panicked", "fatal"}

\* C13: with an empty target command main never gets past the check of
\* line 65 and ends there in a panic, with no handler registered, no
\* listener started, no lock file and the ready-state not-ready; and with
\* JWT auth disabled a process that dies before listenUntilShutdown has an
\* empty target command, whatever the port and the timeouts are.
C13_OnlyEmptyProcessIsFatal ==
    /\ (env["fprocess"] = <<>> /\ ~flags.runHealthcheck) =>
           /\ mainpc \in {"flags", "start", "config", "check", "returned"}
           /\ NoServerSetup /\ ~lockFile
           /\ mainpc = "returned" => flags.versionFlag
           /\ (mainpc = "check" /\ ~Running) =>
                  /\ procState = "panicked"
                  /\ exitCode # 0
                  /\ diagnostic = DiagNoProcess
    /\ (DiedFatally /\ mainpc \in StartupPositions /\ ~config.jwtAuthentication) =>
           /\ env["fprocess"] = <<>>
           /\ diagnostic = DiagNoProcess

\* the process has panicked for its empty target command, and another
\* setting is out of the ordinary
C13_Witness ==
    /\ env["fprocess"] = <<>> /\ env["port"] # <<>>
    /\ procState = "panicked" /\ diagnostic = DiagNoProcess

\* the function name or the namespace cannot be resolved
ResolutionFails ==
    \/ fnEnv.name \in {"unset", "empty"}
    \/ fnEnv.namespace = "unset" /\ ~fnEnv.file

\* C15: with JWT auth enabled and the function name or the namespace not
\* resolvable, main never gets past line 98 and ends there with a fatal
\* error, before any handler is registered, any listener is started or the
\* lock file is created; with JWT auth disabled nothing is looked up and the
\* handler is registered unwrapped; with it enabled the registered handler
\* is the middleware.
C15_UnresolvedNameIsFatal ==
    /\ (config.jwtAuthentication /\ ResolutionFails) =>
           /\ mainpc \in StartupPositions
           /\ NoServerSetup /\ ~lockFile
           /\ (mainpc = "register" /\ ~Running) =>
                  /\ procState = "fatal"
                  /\ exitCode = 1
                  /\ diagnostic = DiagJWT
    /\ ~config.jwtAuthentication => (lookedUp = {} /\ ~wrapped)
    /\ handlersRegistered => (wrapped <=> config.jwtAuthentication)

\* the process has ended at line 94 for an empty OPENFAAS_NAME
C15_Witness ==
    /\ config.jwtAuthentication /\ fnEnv.name = "empty"
    /\ fnEnv.namespace = "set"
    /\ procState = "fatal" /\ mainpc = "register"

\* the steps of sigLog, as a set
StepsTaken == {sigLog[i] : i \in 1..Len(sigLog)}

\* C12: with suppress-lock true the ready-state is ready without a lock
\* file, and the signal goroutine flips the flag only: it attempts no
\* removal of the lock file and reports no error for the absent file.
C12_SuppressLockOnlyFlipsFlag ==
    config.suppressLock =>
        /\ ~lockFile
        /\ "remove" \notin StepsTaken
        /\ ~removeErr

\* C14: the process never panics for closing idleConnsClosed a second time.
C14_IdleConnsClosedOnce == diagnostic # DiagCloseClosed

\* C16: with suppress-lock false the ready-state is ready only after the
\* lock file has been written, and the file exists then until markUnhealthy
\* removes it; a failed write ends the process in a panic that names the
\* path, with the ready-state not-ready, and no request to /_/health has
\* been answered 200 in a run that ends so.
C16_ReadyOnlyWithLockFile ==
    /\ []((~config.suppressLock /\ acceptingConnections = 1) =>
             /\ mainpc \in {"wait", "returned"}
             /\ sigLog = <<>> => lockFile)
    /\ [](diagnostic = DiagLockWrite =>
             /\ procState = "panicked" /\ mainpc = "lock"
             /\ ~config.suppressLock
             /\ acceptingConnections = 0)
    /\ [](healthStatus = 200 => [](diagnostic # DiagLockWrite))

\* the write of the lock file has failed while the server was listening and
\* had answered a health request
C16_Witness ==
    /\ diagnostic = DiagLockWrite /\ procState = "panicked"
    /\ srvState = "listening" /\ healthStatus = 503

\* C18: when the server goroutine has ended with http.ErrServerClosed the
\* channel is closed by the signal goroutine only, so main has returned
\* only after Shutdown has returned and the final count has been read.
C18_MainWaitsForShutdown ==
    srvpc = "serverClosed" =>
        /\ idleConnsClosed => sigpc = "done"
        /\ mainpc = "returned" =>
               /\ Len(sigLog) = 7
               /\ sigLog[5] = "shutdown" /\ sigLog[6] = "final"
               /\ sigLog[7] = "close"

\* main has returned after a shutdown that ended ListenAndServe
C18_Witness ==
    /\ srvpc = "serverClosed" /\ mainpc = "returned"
    /\ procState = "exited" /\ exitCode = 0

\* a value that is unset or parses neither way
Unparseable(s) == s = <<>> \/ ParsesNeitherWay(s)

\* 30 s in nanoseconds, 30000000000, as an int64
ThirtySeconds == <<44032, 64547, 6, 0>>

\* the duration a parseable value stands for
ParsedValue(s) ==
    IF IsPlainInt(s) THEN SecondsOf(DecValue(s, <<>>)) ELSE ParseDuration(s).d

\* C17: once Read has returned, the healthcheck interval equals the write
\* timeout of the configuration when healthcheck_interval is unset or
\* unparseable; the write timeout is the value parsed from write_timeout, or
\* 30 s when that is unset or unparseable; and the hard execution timeout
\* is 0 when exec_timeout is unset.
C17_IntervalDefaultsToWriteTimeout ==
    mainpc = "check" =>
        /\ Unparseable(env["healthcheck_interval"]) =>
               config.healthcheckInterval = config.writeTimeout
        /\ config.writeTimeout =
               IF Unparseable(env["write_timeout"]) THEN ThirtySeconds
               ELSE ParsedValue(env["write_timeout"])
        /\ env["exec_timeout"] = <<>> => config.execTimeout = Int64Zero

\* Read has returned for a write timeout of 5s and an unparseable interval
C17_Witness ==
    /\ mainpc = "check"
    /\ env["write_timeout"] = <<"5", "s">>
    /\ env["healthcheck_interval"] = <<"s">>
    /\ env["exec_timeout"] = <<>>
    /\ config.healthcheckInterval # ThirtySeconds
    /\ config.healthcheckInterval = SecondsOf(NatN(5))

\* C19: for a non-negative fallback parseIntOrDurationValue returns a
\* non-negative duration, whatever the string.
C19_DurationNeverNegative ==
    (result # NoCall /\ ~IsNeg64(fallback)) => ~IsNeg64(result)

====
